---- MODULE Spec2Model ----
(***************************************************************************)
(* A model of mk_links.py: the picon link maker.  One program run walks    *)
(* the output directories given on the command line; for each it builds    *)
(* the icon inventory from <dir>/channel_picons, scans the existing links  *)
(* of <dir>, expands every line of the service reference file into target  *)
(* names, reconciles each target with the directory and finally removes    *)
(* the links nobody claimed.                                               *)
(*                                                                         *)
(* Representation.                                                         *)
(*  - A file system path below an output directory is a string relative   *)
(*    to that directory ("1_0_1.png", "channel_picons/a.png").  A          *)
(*    directory's content is a function from the paths that exist to       *)
(*    entries [k, ino, to]: k is "reg" (regular file on inode ino), "sym"  *)
(*    (symbolic link whose text resolves to path to) or "dir".  The hard   *)
(*    link count of an inode is the number of paths on it; everything is   *)
(*    on one device, so the (st_dev, st_ino) pair is modelled by ino.      *)
(*  - Only *.png entries are modelled (both scans skip everything else).   *)
(*  - A field of a service reference is a sequence of characters, so that  *)
(*    int(x) and int(x, 16) are computed digit by digit and can fail.      *)
(*    The characters are digits and letters: signs, "0x" prefixes and      *)
(*    digit-group underscores, which int() also accepts, are not inputs.   *)
(*  - A line of the service reference file is its comment-stripped         *)
(*    whitespace split: the first token already split at ':' (ref), and    *)
(*    the remaining tokens (words).  A blank line has no token at all.     *)
(***************************************************************************)
EXTENDS Integers, Sequences, FiniteSets, TLC

VARIABLES
    disk,             \* disk[d]: content of output directory d (path -> entry)
    env,              \* env[d]: what the environment lets the run do in d
    db,               \* the lines of the service reference file (picon-defs)
    dbOpens,          \* whether open(piconDefsFile) succeeds
    options,          \* the options dictionary after getopt
    nargs,            \* number of picon-dir arguments
    argi,             \* main loop: index of the directory being processed
    pc,               \* position of the program
    run,              \* how many times the program has been started
    nextIno,          \* the inode the file system hands out next
    piconFiles,       \* self.piconFiles: icon key -> [name, ref]
    origPiconLinks,   \* self.origPiconLinks: link name -> identity
    overrides,        \* self.overrides
    linkedPiconNames, \* self.linkedPiconNames
    piconLinks,       \* makeLinks: piconLinks
    linksMade,        \* makeLinks: linksMade
    lineNo,           \* makeLinks: number of lines read from servrefFile
    servRefs,         \* makeLinks: the targets of the current line still to do
    servRefPartsFold, \* makeLinks: the local servRefPartsFold (<<>>: unbound)
    log,              \* what the run printed, as a set of events
    muts,             \* successful remove/link/symlink calls in this directory
    disk0,            \* the disk when the program was started
    srcImages,        \* the image files of src-picon-dir/channel_picons
    claimant,         \* history: target name -> line whose link it is
    targets           \* history: lineNo -> the target names of the line

vars == <<disk, env, db, dbOpens, options, nargs, argi, pc, run, nextIno,
          piconFiles, origPiconLinks, overrides, linkedPiconNames, piconLinks,
          linksMade, lineNo, servRefs, servRefPartsFold, log, muts, disk0,
          srcImages, claimant, targets>>

----------------------------------------------------------------------------
(* Bounds of the model *)

\* The service reference file has at most MaxRecords lines
MaxRecords == 2

\* The program is started at most MaxRuns times
MaxRuns == 2

\* The command line names at most MaxDirs output directories
MaxDirs == 2

----------------------------------------------------------------------------
(* Strings and numbers *)

RECURSIVE Cat(_)
\* ''.join(chars)
Cat(s) == IF s = <<>> THEN "" ELSE Head(s) \o Cat(Tail(s))

RECURSIVE JoinWith(_, _)
\* sep.join(strs)
JoinWith(sep, strs) ==
    IF strs = <<>> THEN ""
    ELSE IF Len(strs) = 1 THEN strs[1]
    ELSE strs[1] \o sep \o JoinWith(sep, Tail(strs))

\* Value of one character as a digit; 99 for a character that is no digit.
DigitVal(c) ==
    CASE c = "0" -> 0 [] c = "1" -> 1 [] c = "2" -> 2 [] c = "3" -> 3
      [] c = "4" -> 4 [] c = "5" -> 5 [] c = "6" -> 6 [] c = "7" -> 7
      [] c = "8" -> 8 [] c = "9" -> 9
      [] c \in {"a", "A"} -> 10 [] c \in {"b", "B"} -> 11
      [] c \in {"c", "C"} -> 12 [] c \in {"d", "D"} -> 13
      [] c \in {"e", "E"} -> 14 [] c \in {"f", "F"} -> 15
      [] OTHER -> 99

RECURSIVE Digits(_, _, _)
Digits(chars, base, acc) ==
    IF chars = <<>> THEN acc
    ELSE Digits(Tail(chars), base, acc * base + DigitVal(Head(chars)))

\* int(x, base): -1 stands for ValueError.
ParseInt(chars, base) ==
    IF chars = <<>> \/ \E i \in 1..Len(chars) : DigitVal(chars[i]) >= base
    THEN -1
    ELSE Digits(chars, base, 0)

\* n & ~0x0100, for n >= 0
ClearBit8None(n) == n

\* n & ~0x0100, for n >= 0
ClearBit8(n) == IF (n \div 256) % 2 = 1 THEN n - 256 ELSE n

\* n & 0xF, for n >= 0
Low4(n) == n % 16

----------------------------------------------------------------------------
(* The file system below one output directory *)

CHAN_PICON_DIR == "channel_picons"

\* LinkMaker.PICON_SRCS, without the leading underscore of each tag
PICON_SRCS == {"ab", "fv", "gm", "lw", "mp", "nine", "rc", "sbs", "wp", "ys"}

IS_FILE == "IS_FILE"
IS_HLINK == "IS_HLINK"
IS_SLINK == "IS_SLINK"
IS_OTHER == "IS_OTHER"

Reg(i) == [k |-> "reg", ino |-> i, to |-> ""]
Sym(t) == [k |-> "sym", ino |-> 0, to |-> t]
Dir(i) == [k |-> "dir", ino |-> i, to |-> ""]

\* path.join(a, b)
PathJoin(a, b) == a \o "/" \o b

\* g with key x bound to v (a Python dict assignment)
Put(g, x, v) == [y \in DOMAIN g \cup {x} |-> IF y = x THEN v ELSE g[y]]

\* A del that leaves the key where it is
DelNothing(g, x) == g

\* g without key x (a Python del)
Del(g, x) == [y \in DOMAIN g \ {x} |-> g[y]]

EmptyMap == [y \in {} |-> 0]

\* path.lexists(p)
LExists(fs, p) == p \in DOMAIN fs

RECURSIVE Follow(_, _, _)
\* The path p resolves to after following symbolic links; "" when it dangles
\* (or loops: fuel counts the links followed, ELOOP).
Follow(fs, p, fuel) ==
    IF p \notin DOMAIN fs THEN ""
    ELSE IF fs[p].k # "sym" THEN p
    ELSE IF fuel = 0 THEN ""
    ELSE Follow(fs, fs[p].to, fuel - 1)

Resolve(fs, p) == Follow(fs, p, 4)

\* path.exists(p)
Exists(fs, p) == Resolve(fs, p) # ""

\* path.islink(p)
IsLink(fs, p) == p \in DOMAIN fs /\ fs[p].k = "sym"

\* path.isfile(p)
IsFile(fs, p) == Exists(fs, p) /\ fs[Resolve(fs, p)].k = "reg"

\* stat(p).st_nlink of an existing regular file
NLink(fs, p) ==
    LET i == fs[Resolve(fs, p)].ino
    IN  Cardinality({q \in DOMAIN fs : fs[q].k = "reg" /\ fs[q].ino = i})

\* LinkMaker.refType
RefType(fs, p) ==
    IF IsLink(fs, p) THEN IS_SLINK
    ELSE IF IsFile(fs, p)
         THEN (IF NLink(fs, p) > 1 THEN IS_HLINK ELSE IS_FILE)
         ELSE IS_OTHER

\* LinkMaker.getLinkRef: stat(p) raises when p does not resolve
StatOK(fs, p) == Exists(fs, p)
GetLinkRef(fs, p) == fs[Resolve(fs, p)].ino

\* os.remove(p): fails on a missing path and on a directory
RemoveOK(fs, p) == p \in DOMAIN fs /\ fs[p].k # "dir"
Remove(fs, p) == Del(fs, p)

\* os.link(src, dst): link(2) does not follow src, needs a file there and
\* nothing at dst
HardLinkOK(fs, src, dst) ==
    /\ src \in DOMAIN fs /\ fs[src].k = "reg"
    /\ dst \notin DOMAIN fs
HardLink(fs, src, dst) == Put(fs, dst, Reg(fs[src].ino))

\* os.symlink(text, dst): the text is kept as written and is resolved, when
\* the link is followed, from the directory that holds dst
SymlinkOK(fs, dst) == dst \notin DOMAIN fs

----------------------------------------------------------------------------
(* makeLinks, lines 209-236: the targets of one line *)

Min(a, b) == IF a < b THEN a ELSE b

\* xs[lo:hi] of Python, lo and hi 0-based
Slice(xs, lo, hi) == SubSeq(xs, lo + 1, Min(hi, Len(xs)))

\* xs with the 0-based element i replaced by v (Python xs[i] = v on a copy)
SetItem(xs, i, v) == [j \in 1..Len(xs) |-> IF j = i + 1 THEN v ELSE xs[j]]

\* The strings of a list of character sequences
Strs(parts) == [i \in 1..Len(parts) |-> Cat(parts[i])]

\* servRefName.split(':')[0:10]
ServRefParts(line) == Slice(line.ref, 0, 10)

\* A split that stops after the third field
NumFieldsAtMost3(line) ==
    (IF line.ref = <<>> THEN 0 ELSE 1) + Min(2, Len(line.words))

\* len(F) of F = line.split()
NumFields(line) == (IF line.ref = <<>> THEN 0 ELSE 1) + Len(line.words)

ServiceName(line) == line.words[1]
Picon(line) == line.words[2]

\* servRef, the first token as it was written
ServRef(line) == JoinWith(":", Strs(line.ref))

\* The state of the expansion of one line: err is the exception that ended
\* it ("" for none), refs is servRefs, fold is servRefPartsFold.
ExpState(err, refs, fold) == [err |-> err, refs |-> refs, fold |-> fold]

Raise(st, e) == [st EXCEPT !.err = e]

\* A test of stype that leaves 0x2 out
KeptTypesNoRadio == {1, 10}

\* stype in (0x1, 0x2, 0xA)
KeptTypes == {1, 2, 10}

\* int(servRefParts[5], 16) in (0x1010, 0x3201)
NewsRadioSids == {4112, 12801}

\* Lines 219-229: the addfold block, entered with the state st
AddFoldBlock(parts, st) ==
    LET P     == Strs(parts)
        t0    == ParseInt(parts[1], 10)
        stype == ParseInt(parts[3], 16)
        st1   == IF stype \notin KeptTypes
                 THEN ExpState("", Append(st.refs, SetItem(P, 2, "1")),
                               SetItem(P, 2, "1"))
                 ELSE st
        alias == SetItem(P, 2, IF stype = 10 THEN "2" ELSE "A")
    IN  IF st.err # "" THEN st
        ELSE IF t0 = -1 THEN Raise(st, "ValueError")
        ELSE IF ClearBit8(t0) # 1 THEN st
        ELSE IF Len(parts) < 3 THEN Raise(st, "IndexError")
        ELSE IF stype = -1 THEN Raise(st, "ValueError")
        ELSE IF stype \notin {2, 10} THEN st1
        ELSE IF Len(parts) < 6 THEN Raise(st1, "IndexError")
        ELSE IF ParseInt(parts[6], 16) = -1 THEN Raise(st1, "ValueError")
        ELSE IF ParseInt(parts[6], 16) \notin NewsRadioSids THEN st1
        ELSE IF ParseInt(parts[4], 16) = -1 THEN Raise(st1, "ValueError")
        ELSE IF Low4(ParseInt(parts[4], 16)) # 15 THEN st1
        ELSE ExpState("", Append(st1.refs, alias), alias)

\* Lines 231-236: the fold block.  The append of line 236 is outside the
\* inner if: it appends whatever servRefPartsFold holds, and raises
\* UnboundLocalError (a NameError) when nothing was ever assigned to it.
FoldBlock(parts, st) ==
    LET P     == Strs(parts)
        t0    == ParseInt(parts[1], 10)
        stype == ParseInt(parts[3], 16)
        f     == IF stype \notin KeptTypes THEN SetItem(P, 2, "1") ELSE st.fold
    IN  IF st.err # "" THEN st
        ELSE IF t0 = -1 THEN Raise(st, "ValueError")
        ELSE IF ClearBit8(t0) # 1 THEN st
        ELSE IF Len(parts) < 3 THEN Raise(st, "IndexError")
        ELSE IF stype = -1 THEN Raise(st, "ValueError")
        ELSE IF f = <<>> THEN Raise(st, "NameError")
        ELSE ExpState("", Append(st.refs, f), f)

\* Lines 211-236: servRefs of a line with three fields, given the options
\* and the servRefPartsFold left by the lines before it
Expand(line, opts, fold) ==
    LET parts == ServRefParts(line)
        P     == Strs(parts)
        r1    == IF opts.useServiceNameLinks THEN <<<<ServiceName(line)>>>>
                 ELSE <<>>
        r2    == IF opts.full \/ opts.addfold THEN Append(r1, P) ELSE r1
        r3    == IF opts.short
                 THEN Append(r2, Slice(P, 0, 1) \o Slice(P, 3, 7))
                 ELSE r2
        st3   == ExpState("", r3, fold)
        st4   == IF opts.addfold THEN AddFoldBlock(parts, st3) ELSE st3
    IN  IF opts.fold THEN FoldBlock(parts, st4) ELSE st4

\* '_'.join(srp) + '.png'
TargetName(srp) == JoinWith("_", srp) \o ".png"

----------------------------------------------------------------------------
(* The image directory and the inventory *)

\* An image file of channel_picons is named by the '_'-separated segments
\* of its base name: <<"abc", "sbs">> is abc_sbs.png.
FileName(segs) == JoinWith("_", segs) \o ".png"

\* path.join(CHAN_PICON_DIR, piconName), relative to the output directory
IconPath(piconName) == PathJoin(CHAN_PICON_DIR, piconName)

\* The image files the model can hold in a channel_picons directory
IconFileList ==
    << <<"a">>, <<"a", "sbs">>, <<"b">>, <<"a", "fv">>, <<"abc">>, <<"tba">> >>
IconFiles == {IconFileList[i] : i \in 1..Len(IconFileList)}

\* The paths of the model that lie inside channel_picons
ChanPaths == {IconPath(FileName(f)) : f \in IconFiles}

\* listdir(chanDir), the .png entries
ChanFiles(fs) == {f \in IconFiles : IconPath(FileName(f)) \in DOMAIN fs}

\* listdir(self.piconPath), the .png entries
OutNames(fs) == DOMAIN fs \ ChanPaths

\* The orders in which listdir can return the set S
Orders(S) ==
    {o \in [1..Cardinality(S) -> S] :
        \A i, j \in 1..Cardinality(S) : o[i] = o[j] => i = j}

\* One event of the run's output
Ev(e, l, nm, pic, n) ==
    [ev |-> e, line |-> l, name |-> nm, picon |-> pic, n |-> n]

\* A loop body in which a plain name takes the key it finds taken
InventoryStepPlainTakes(fs, inv, segs) ==
    LET piconName == FileName(segs)
        n         == Len(segs)
        prefix    == JoinWith("_", SubSeq(segs, 1, n - 1))
        suffixed  == n >= 2 /\ prefix # "" /\ segs[n] \in PICON_SRCS
        key       == IF suffixed THEN prefix ELSE JoinWith("_", segs)
        entry     == [name |-> piconName,
                      ref |-> GetLinkRef(fs, IconPath(piconName))]
    IN  IF ~IsFile(fs, IconPath(piconName)) THEN inv
        ELSE [files |-> Put(inv.files, key, entry),
              log |-> IF suffixed /\ prefix \in DOMAIN inv.files
                      THEN inv.log \cup
                           {Ev("renamed", 0, inv.files[key].name, piconName, 0)}
                      ELSE inv.log]

\* Lines 125-140: one turn of the loop over listdir(chanDir); inv is
\* [files |-> self.piconFiles, log |-> what was printed]
InventoryStep(fs, inv, segs) ==
    LET piconName == FileName(segs)
        basename  == JoinWith("_", segs)
        n         == Len(segs)
        prefix    == JoinWith("_", SubSeq(segs, 1, n - 1))
        suffixed  == n >= 2 /\ prefix # "" /\ segs[n] \in PICON_SRCS
        key       == IF suffixed THEN prefix
                     ELSE IF basename \notin DOMAIN inv.files THEN basename
                     ELSE ""
        renamed   == suffixed /\ prefix \in DOMAIN inv.files
        entry     == [name |-> piconName,
                      ref |-> GetLinkRef(fs, IconPath(piconName))]
    IN  IF ~IsFile(fs, IconPath(piconName)) \/ key = "" THEN inv
        ELSE [files |-> Put(inv.files, key, entry),
              log |-> IF renamed
                      THEN inv.log \cup
                           {Ev("renamed", 0, inv.files[key].name, piconName, 0)}
                      ELSE inv.log]

RECURSIVE InventoryLoop(_, _, _)
InventoryLoop(fs, inv, order) ==
    IF order = <<>> THEN inv
    ELSE InventoryLoop(fs, InventoryStep(fs, inv, Head(order)), Tail(order))

\* LinkMaker._makePiconFileList, for one order of listdir
MakePiconFileList(fs, order) ==
    InventoryLoop(fs, [files |-> EmptyMap, log |-> {}], order)

RECURSIVE RemoveAll(_, _)
\* The directory after remove() of every path of the set that can be removed
RemoveAll(fs, names) ==
    IF names = {} THEN fs
    ELSE LET p == CHOOSE q \in names : TRUE
         IN  RemoveAll(IF RemoveOK(fs, p) THEN Remove(fs, p) ELSE fs,
                       names \ {p})

\* The regular files and symbolic links among names: what _clean removes
Removable(fs, names) == {p \in names : RemoveOK(fs, p)}

\* A _clean that removes nothing
CleanFsNone(fs, names) == fs

\* LinkMaker._clean: the directory after it, and what it prints
CleanFs(fs, names) == RemoveAll(fs, names)
CleanLog(fs, names, phase) ==
    {Ev("removing", 0, phase, "", Cardinality(names))} \cup
    {Ev("cantremove", 0, p, "", 0) : p \in names \ Removable(fs, names)}

----------------------------------------------------------------------------
(* The program *)

\* Variables of groups that most actions leave alone
inputs == <<db, dbOpens, options, nargs, srcImages, disk0>>
maker  == <<piconFiles, origPiconLinks, overrides, linkedPiconNames>>
locals == <<piconLinks, linksMade, lineNo, servRefs, servRefPartsFold,
            claimant, targets>>

fs == disk[argi]

SetFs(new) == disk' = [disk EXCEPT ![argi] = new]

\* exit(1): the process ends, whatever directories are left
\* An exit(1) that lets the constructor return
Exit1Returns == pc' = "lines"

\* exit(1)
Exit1 == pc' = "exit1"

\* The position of an image file in the order the copy creates them
FileRank(f) == CHOOSE i \in 1..Len(IconFileList) : IconFileList[i] = f

\* LinkMaker.copyImages: every .png of channel_picons is removed, then every
\* .png of the source is copied in, each a new file on a new inode (ino is
\* the next inode the file system hands out).  A channel_picons that is
\* missing is created; one that cannot be listed ends the program.
CopyImages(dir, chan, src, ino) ==
    LET old     == {IconPath(FileName(f)) : f \in ChanFiles(dir)}
        new     == {IconPath(FileName(f)) : f \in src}
        from(q) == CHOOSE f \in src : IconPath(FileName(f)) = q
    IN  IF chan = "unreadable"
        THEN [ok |-> FALSE, fs |-> dir, chan |-> chan, ino |-> ino]
        ELSE [ok |-> TRUE,
              fs |-> [q \in (DOMAIN dir \ old) \cup new |->
                        IF q \in new THEN Reg(ino + FileRank(from(q)))
                        ELSE dir[q]],
              chan |-> "ok",
              ino |-> ino + Len(IconFileList) + 1]

\* The .png links of the output directory, by kind (lines 149-159)
LinkNames(dir) ==
    {n \in OutNames(dir) : RefType(dir, n) \in {IS_SLINK, IS_HLINK}}
\* The test of line 156 the wrong way round
RightLinksInverted(dir, useHardLinks) ==
    {n \in LinkNames(dir) : useHardLinks # (RefType(dir, n) = IS_HLINK)}

RightLinks(dir, useHardLinks) ==
    {n \in LinkNames(dir) : useHardLinks = (RefType(dir, n) = IS_HLINK)}
WrongLinks(dir, useHardLinks) ==
    LinkNames(dir) \ RightLinks(dir, useHardLinks)

\* LinkMaker._cleanWrongLinks.  getLinkRef raises on a symbolic link that
\* does not resolve, and the handler of line 163 exits: ok is FALSE then,
\* as it is when the directory cannot be listed.
CleanWrongLinks(dir, outListable, useHardLinks, cleanAll) ==
    LET right == RightLinks(dir, useHardLinks)
        wrong == WrongLinks(dir, useHardLinks)
        fs1   == CleanFs(dir, wrong)
        fs2   == IF cleanAll THEN CleanFs(fs1, right) ELSE fs1
    IN  IF ~outListable \/ \E n \in LinkNames(dir) : ~StatOK(dir, n)
        THEN [ok |-> FALSE, fs |-> dir, orig |-> EmptyMap,
              log |-> {Ev("cantprocess", 0, ".", "", 0)}]
        ELSE [ok |-> TRUE, fs |-> fs2,
              orig |-> IF cleanAll THEN EmptyMap
                       ELSE [n \in right |-> GetLinkRef(dir, n)],
              log |-> CleanLog(dir, wrong, "wrong") \cup
                      (IF cleanAll THEN CleanLog(fs1, right, "all") ELSE {})]

\* LinkMaker.__init__: the new LinkMaker's fields, copyImages (line 108),
\* open (line 111), _makePiconFileList (line 116) and _cleanWrongLinks
\* (line 118).  Each of the four can end the program with exit(1).
Construct ==
    /\ pc = "main"
    /\ overrides' = {}
    /\ linkedPiconNames' = {}
    /\ piconLinks' = EmptyMap
    /\ claimant' = EmptyMap
    /\ targets' = EmptyMap
    /\ linksMade' = 0
    /\ lineNo' = 0
    /\ servRefs' = <<>>
    /\ servRefPartsFold' = <<>>
    /\ LET cp == IF options.copyImages
                 THEN CopyImages(fs, env[argi].chan, srcImages, nextIno)
                 ELSE [ok |-> TRUE, fs |-> fs, chan |-> env[argi].chan,
                       ino |-> nextIno]
       IN  /\ env' = [env EXCEPT ![argi].chan = cp.chan]
           /\ nextIno' = cp.ino
           /\ IF ~cp.ok
              THEN /\ Exit1
                   /\ log' = {Ev("cantaccess", 0, CHAN_PICON_DIR, "", 0)}
                   /\ UNCHANGED <<disk, piconFiles, origPiconLinks>>
                   /\ muts' = 0
              ELSE IF ~dbOpens
              THEN /\ Exit1
                   /\ log' = {Ev("cantopen", 0, "", "", 0)}
                   /\ SetFs(cp.fs)
                   /\ UNCHANGED <<piconFiles, origPiconLinks>>
                   /\ muts' = 0
              ELSE IF cp.chan # "ok"
              THEN /\ Exit1
                   /\ log' = {Ev("cantprocess", 0, CHAN_PICON_DIR, "", 0)}
                   /\ SetFs(cp.fs)
                   /\ UNCHANGED <<piconFiles, origPiconLinks>>
                   /\ muts' = 0
              ELSE \E order \in Orders(ChanFiles(cp.fs)) :
                     LET inv  == MakePiconFileList(cp.fs, order)
                         scan == CleanWrongLinks(cp.fs, env[argi].outListable,
                                                 options.useHardLinks,
                                                 options.cleanAll)
                     IN  /\ piconFiles' = inv.files
                         /\ origPiconLinks' = scan.orig
                         /\ SetFs(scan.fs)
                         /\ log' = inv.log \cup scan.log
                         /\ muts' = Cardinality(DOMAIN cp.fs \ DOMAIN scan.fs)
                         /\ pc' = IF scan.ok THEN "lines" ELSE "exit1"
    /\ UNCHANGED <<inputs, argi, run>>

\* makeLinks, lines 198-236: the next line of the file is read and expanded.
\* An exception raised by the expansion is caught nowhere: the program ends
\* with a traceback.
ReadLine ==
    /\ pc = "lines"
    /\ servRefs = <<>>
    /\ lineNo < Len(db)
    /\ lineNo' = lineNo + 1
    /\ LET line == db[lineNo + 1]
           exp  == Expand(line, options, servRefPartsFold)
       IN  IF NumFields(line) = 0
           THEN UNCHANGED <<pc, servRefs, servRefPartsFold, targets, log>>
           ELSE IF NumFields(line) > 3
           THEN /\ log' = log \cup {Ev("toomany", lineNo + 1, "", "", 0)}
                /\ UNCHANGED <<pc, servRefs, servRefPartsFold, targets>>
           ELSE IF NumFields(line) < 3
           THEN /\ log' = log \cup {Ev("toofew", lineNo + 1, "", "", 0)}
                /\ UNCHANGED <<pc, servRefs, servRefPartsFold, targets>>
           ELSE IF exp.err # ""
           THEN /\ pc' = "crash"
                /\ log' = log \cup {Ev(exp.err, lineNo + 1, "", "", 0)}
                /\ UNCHANGED <<servRefs, servRefPartsFold, targets>>
           ELSE /\ servRefs' = exp.refs
                /\ servRefPartsFold' = exp.fold
                /\ targets' = [l \in DOMAIN targets \cup {lineNo + 1} |->
                                 IF l = lineNo + 1
                                 THEN [i \in 1..Len(exp.refs) |->
                                         TargetName(exp.refs[i])]
                                 ELSE targets[l]]
                /\ UNCHANGED <<pc, log>>
    /\ UNCHANGED <<disk, env, inputs, maker, piconLinks, linksMade, claimant,
                   argi, run, nextIno, muts>>

\* No key is a placeholder
PlaceholdersNone == {}

\* The icon keys that are reported as missing by nobody (line 287)
Placeholders == {"tba", "tobeadvised"}

\* An isOverride that takes no file for an override
IsOverrideSetNone(dir, ovr, p) == ovr

\* LinkMaker.isOverride, lines 181-184: the set of overrides after the call
IsOverrideSet(dir, ovr, p) ==
    IF p \notin ovr /\ RefType(dir, p) = IS_FILE THEN ovr \cup {p} ELSE ovr

\* The path the text of a new symbolic link at dst resolves to: the text is
\* CHAN_PICON_DIR/piconName, read from the directory that holds dst
SymlinkTarget(dst, piconName) ==
    IF dst \in ChanPaths THEN PathJoin(CHAN_PICON_DIR, IconPath(piconName))
    ELSE IconPath(piconName)

\* Lines 270-281: remove what is at the target and make the link.  The
\* result is the directory after it, whether the link was made, and what
\* was added to linksMade (line 274 counts before the link is tried).
MakeLink(dir, name, piconName, useHardLinks) ==
    IF LExists(dir, name) /\ ~RemoveOK(dir, name)
    THEN [fs |-> dir, linked |-> FALSE, made |-> 0, muts |-> 0]
    ELSE LET rm   == IF LExists(dir, name) THEN 1 ELSE 0
             dir1 == IF LExists(dir, name) THEN Remove(dir, name) ELSE dir
         IN  IF useHardLinks
             THEN IF HardLinkOK(dir1, IconPath(piconName), name)
                  THEN [fs |-> HardLink(dir1, IconPath(piconName), name),
                        linked |-> TRUE, made |-> 1, muts |-> rm + 1]
                  ELSE [fs |-> dir1, linked |-> FALSE, made |-> 1,
                        muts |-> rm]
             ELSE IF SymlinkOK(dir1, name)
                  THEN [fs |-> Put(dir1, name,
                                   Sym(SymlinkTarget(name, piconName))),
                        linked |-> TRUE, made |-> 1, muts |-> rm + 1]
                  ELSE [fs |-> dir1, linked |-> FALSE, made |-> 1,
                        muts |-> rm]

\* A line 241 that never matches
NeverAlreadyLinked(links, name, picon) == FALSE

\* Line 241: the target is already linked to this icon key in this run
AlreadyLinked(links, name, picon) ==
    name \in DOMAIN links /\ links[name] = picon

\* makeLinks, lines 238-290: one turn of the loop over servRefs
Reconcile ==
    /\ pc = "lines"
    /\ servRefs # <<>>
    /\ servRefs' = Tail(servRefs)
    /\ LET line    == db[lineNo]
           picon   == Picon(line)
           name    == TargetName(Head(servRefs))
           exists  == Exists(fs, name)
           ovr     == IsOverrideSet(fs, overrides, name)
           lexists == exists \/ LExists(fs, name)
           known   == picon \in DOMAIN piconFiles
           inBase  == name \in DOMAIN origPiconLinks
           same    == inBase /\ origPiconLinks[name] = piconFiles[picon].ref
           res     == MakeLink(fs, name, piconFiles[picon].name,
                               options.useHardLinks)
           linked  == known /\ (~exists \/ lexists) /\ (same \/ res.linked)
       IN  IF AlreadyLinked(piconLinks, name, picon)
           THEN UNCHANGED <<disk, origPiconLinks, overrides, linkedPiconNames,
                            piconLinks, claimant, linksMade, log, muts>>
           ELSE IF name \in DOMAIN piconLinks
           THEN /\ log' = log \cup
                          {Ev("conflict", lineNo, name, piconLinks[name], 0)}
                /\ UNCHANGED <<disk, origPiconLinks, overrides,
                               linkedPiconNames, piconLinks, claimant,
                               linksMade, muts>>
           ELSE IF exists /\ name \in ovr
           THEN /\ overrides' = ovr
                /\ log' = IF name \in overrides THEN log
                          ELSE log \cup
                               {Ev("overridden", lineNo, name, picon, 0)}
                /\ UNCHANGED <<disk, origPiconLinks, linkedPiconNames,
                               piconLinks, claimant, linksMade, muts>>
           ELSE /\ overrides' = overrides
                /\ origPiconLinks' =
                     IF known /\ (~exists \/ lexists) /\ inBase
                     THEN Del(origPiconLinks, name) ELSE origPiconLinks
                /\ IF known /\ (~exists \/ lexists) /\ ~same
                   THEN /\ SetFs(res.fs)
                        /\ linksMade' = linksMade + res.made
                        /\ muts' = muts + res.muts
                   ELSE UNCHANGED <<disk, linksMade, muts>>
                /\ IF linked
                   THEN /\ linkedPiconNames' =
                             linkedPiconNames \cup {piconFiles[picon].name}
                        /\ piconLinks' = Put(piconLinks, name, picon)
                        /\ claimant' = Put(claimant, name, lineNo)
                   ELSE UNCHANGED <<linkedPiconNames, piconLinks, claimant>>
                /\ log' = log \cup
                     (IF known /\ (~exists \/ lexists) /\ ~same /\ ~res.linked
                      THEN {Ev("linkfailed", lineNo, name, picon, 0)}
                      ELSE {}) \cup
                     (IF ~linked /\ picon \notin Placeholders
                      THEN {Ev("nopicon", lineNo, name, picon, 0)}
                      ELSE {})
    /\ UNCHANGED <<env, inputs, piconFiles, lineNo, servRefPartsFold, targets,
                   argi, run, nextIno, pc>>

\* makeLinks, lines 291-292: the file is exhausted
EndOfFile ==
    /\ pc = "lines"
    /\ servRefs = <<>>
    /\ lineNo = Len(db)
    /\ log' = log \cup {Ev("linksMade", 0, "", "", linksMade)}
    /\ pc' = "unused"
    /\ UNCHANGED <<disk, env, inputs, maker, locals, argi, run, nextIno, muts>>

\* A checkUnused that does not look at linkedPiconNames
CheckUnusedAll ==
    /\ pc = "unused"
    /\ log' = log \cup {Ev("unused", 0, piconFiles[k].name, "", 0) :
                           k \in DOMAIN piconFiles}
    /\ pc' = "html"
    /\ UNCHANGED <<disk, env, inputs, maker, locals, argi, run, nextIno, muts>>

\* LinkMaker.checkUnused
CheckUnused ==
    /\ pc = "unused"
    /\ LET piconNames == {piconFiles[k].name : k \in DOMAIN piconFiles}
       IN  log' = log \cup {Ev("unused", 0, n, "", 0) :
                              n \in piconNames \ linkedPiconNames}
    /\ pc' = "html"
    /\ UNCHANGED <<disk, env, inputs, maker, locals, argi, run, nextIno, muts>>

\* LinkMaker.makeHtmlIndex: index.html is no .png and is not modelled; the
\* gallery reads the inventory and changes nothing the links depend on
MakeHtmlIndex ==
    /\ pc = "html"
    /\ pc' = "clean"
    /\ UNCHANGED <<disk, env, inputs, maker, locals, argi, run, nextIno, muts,
                   log>>

\* LinkMaker.clean, called at line 430, and the step of the loop of line 422
Clean ==
    /\ pc = "clean"
    /\ SetFs(CleanFs(fs, DOMAIN origPiconLinks))
    /\ log' = log \cup CleanLog(fs, DOMAIN origPiconLinks, "final")
    /\ muts' = muts + Cardinality(Removable(fs, DOMAIN origPiconLinks))
    /\ origPiconLinks' = EmptyMap
    /\ IF argi < nargs
       THEN argi' = argi + 1 /\ pc' = "main"
       ELSE pc' = "done" /\ UNCHANGED argi
    /\ UNCHANGED <<env, inputs, piconFiles, overrides, linkedPiconNames,
                   locals, run, nextIno>>

\* The program is started again with the same command line
Rerun ==
    /\ pc = "done"
    /\ run < MaxRuns
    /\ run' = run + 1
    /\ argi' = 1
    /\ pc' = "main"
    /\ disk0' = disk
    /\ UNCHANGED <<disk, env, db, dbOpens, options, nargs, srcImages, maker,
                   locals, nextIno, muts, log>>

----------------------------------------------------------------------------
(* Inputs *)

\* A line with three fields
Line(ref, serviceName, picon) == [ref |-> ref, words |-> <<serviceName, picon>>]

\* 1:0:<stype>:<f3>:6:<f5>:0:0:0:0 with another first field
Ref(f0, stype, f3, f5) ==
    <<f0, <<"0">>, stype, f3, <<"6">>, f5, <<"0">>, <<"0">>, <<"0">>, <<"0">>>>

RefX == Ref(<<"1">>, <<"1", "9">>, <<"4", "A">>, <<"8", "5">>)
RefY == Ref(<<"1">>, <<"1">>, <<"4", "A">>, <<"8", "5">>)

NameX == TargetName(Strs(RefX))
NameY == TargetName(Strs(RefY))

\* The lines of the runs that vary the output directory
LinkLines ==
    {Line(RefX, "ABC", "a"), Line(RefX, "ABC", "b"),
     Line(RefY, "ABC", "a"), Line(RefY, "ABC", "m")}

\* The databases of at most n lines over the set L
Databases(L, n) == UNION {[1..k -> L] : k \in 0..n}

NoRules ==
    [full |-> FALSE, short |-> FALSE, fold |-> FALSE, addfold |-> FALSE,
     useServiceNameLinks |-> FALSE]

\* Lines 411-412: --full is assumed when no link type is asked for
DefaultFull(o) ==
    IF o.full \/ o.short \/ o.fold \/ o.addfold \/ o.useServiceNameLinks
    THEN o ELSE [o EXCEPT !.full = TRUE]

Options(rules, hard, cleanAll, copy) ==
    [full |-> rules.full, short |-> rules.short, fold |-> rules.fold,
     addfold |-> rules.addfold,
     useServiceNameLinks |-> rules.useServiceNameLinks,
     useHardLinks |-> hard, cleanAll |-> cleanAll, copyImages |-> copy]

\* Inodes: the images of channel_picons are on 1, 2, 3 (in IconFileList
\* order); 9 is a file no image of channel_picons is on any more.
IconIno(f) == FileRank(f)
OldIno == 9

\* channel_picons holding the image files of the set S
IconDir(S) == [q \in {IconPath(FileName(f)) : f \in S} |->
                 Reg(IconIno(CHOOSE f \in S : IconPath(FileName(f)) = q))]

\* What an output directory can hold at the start under its i-th name: a
\* file of its own, a hard link to the old file or to image a, a symbolic
\* link to image a
StartEntries(i) ==
    {Reg(10 + i), Reg(OldIno), Reg(IconIno(<<"a">>)), Sym(IconPath("a.png"))}

\* ... and what makes a run fail: a symbolic link to an image that is gone,
\* a directory
OddEntries(i) == {Sym(IconPath("gone.png")), Dir(20 + i)}

\* The output directories over the names of the sequence ns, the i-th name
\* absent or one of E(i)
OutDirs(ns, E(_)) ==
    UNION {{g \in [{ns[i] : i \in I} -> UNION {E(i) : i \in 1..Len(ns)}] :
              \A i \in I : g[ns[i]] \in E(i)} :
             I \in SUBSET (1..Len(ns))}

\* g and h (with disjoint domains) together
Merge(g, h) == [q \in DOMAIN g \cup DOMAIN h |->
                  IF q \in DOMAIN g THEN g[q] ELSE h[q]]

OkEnv == [chan |-> "ok", outListable |-> TRUE]

\* channel_picons with a.png and b.png
TwoIcons == IconDir({<<"a">>, <<"b">>})

InitCommon ==
    /\ argi = 1
    /\ pc = "main"
    /\ run = 1
    /\ nextIno = 30
    /\ srcImages = {<<"a">>, <<"b">>}
    /\ piconFiles = EmptyMap
    /\ origPiconLinks = EmptyMap
    /\ overrides = {}
    /\ linkedPiconNames = {}
    /\ piconLinks = EmptyMap
    /\ claimant = EmptyMap
    /\ targets = EmptyMap
    /\ linksMade = 0
    /\ lineNo = 0
    /\ servRefs = <<>>
    /\ servRefPartsFold = <<>>
    /\ log = {}
    /\ muts = 0
    /\ disk0 = disk

\* One output directory whose links and files vary, under the full rule
InitLinks ==
    /\ nargs = 1
    /\ dbOpens = TRUE
    /\ env = <<OkEnv>>
    /\ db \in Databases(LinkLines, MaxRecords)
    /\ \E hard, cleanAll, copy \in BOOLEAN :
         options = Options(DefaultFull(NoRules), hard, cleanAll, copy)
    /\ \E out \in OutDirs(<<NameX, NameY>>, StartEntries) :
         disk = <<Merge(TwoIcons, out)>>
    /\ InitCommon

\* One output directory with a dangling link or a directory in it
InitOdd ==
    /\ nargs = 1
    /\ dbOpens = TRUE
    /\ env = <<OkEnv>>
    /\ db \in Databases(LinkLines, MaxRecords)
    /\ \E hard, cleanAll, copy \in BOOLEAN :
         options = Options(DefaultFull(NoRules), hard, cleanAll, copy)
    /\ \E e \in OddEntries(1) :
         disk = <<Merge(TwoIcons, [q \in {NameX} |-> e])>>
    /\ InitCommon

\* The lines of the runs that vary the expansion rules
RuleLines ==
    {Line(RefX, "ABC", "a"),
     Line(RefY, "ABC", "b"),
     Line(Ref(<<"1">>, <<"2">>, <<"4", "A">>, <<"1", "0", "1", "0">>),
          "ABCNews", "b"),
     Line(Ref(<<"2", "5", "7">>, <<"A">>, <<"4", "F">>, <<"3", "2", "0", "1">>),
          "ABCNews", "a"),
     Line(Ref(<<"2", "5", "7">>, <<"1", "9">>, <<"4", "A">>, <<"8", "5">>),
          "ABC", "a"),
     Line(Ref(<<"2">>, <<"1", "9">>, <<"4", "A">>, <<"8", "5">>), "ABC", "a"),
     Line(Ref(<<"1">>, <<"G">>, <<"4", "A">>, <<"8", "5">>), "ABC", "b"),
     Line(Ref(<<"Z">>, <<"1">>, <<"4", "A">>, <<"8", "5">>), "ABC", "a")}

\* Every combination of the five link types (lines 389-398)
RuleSets ==
    {DefaultFull(r) :
       r \in [{"full", "short", "fold", "addfold", "useServiceNameLinks"}
                -> BOOLEAN]}

\* An empty output directory, under every combination of rules
InitRules ==
    /\ nargs = 1
    /\ dbOpens = TRUE
    /\ env = <<OkEnv>>
    /\ db \in Databases(RuleLines, MaxRecords)
    /\ \E r \in RuleSets : options = Options(r, FALSE, FALSE, FALSE)
    /\ disk = <<TwoIcons>>
    /\ InitCommon

\* The names one line can be expanded to under some rule
NameShort == TargetName(Slice(Strs(RefX), 0, 1) \o Slice(Strs(RefX), 3, 7))
NameService == TargetName(<<"ABC">>)

\* An output directory with one file of its own, under every combination of
\* rules and options
InitOverride ==
    /\ nargs = 1
    /\ dbOpens = TRUE
    /\ env = <<OkEnv>>
    /\ db \in Databases({Line(RefX, "ABC", "a")}, MaxRecords)
    /\ \E r \in RuleSets, hard, cleanAll \in BOOLEAN :
         options = Options(r, hard, cleanAll, FALSE)
    /\ \E n \in {NameX, NameY, NameShort, NameService} :
         disk = <<Merge(TwoIcons, [q \in {n} |-> Reg(11)])>>
    /\ InitCommon

\* What can be wrong with a directory before a run
DirStates ==
    {[env |-> OkEnv, fs |-> TwoIcons],
     [env |-> OkEnv,
      fs |-> Merge(TwoIcons, [q \in {NameX} |-> Sym(IconPath("gone.png"))])],
     [env |-> [chan |-> "missing", outListable |-> TRUE], fs |-> EmptyMap],
     [env |-> [chan |-> "unreadable", outListable |-> TRUE], fs |-> TwoIcons],
     [env |-> [chan |-> "ok", outListable |-> FALSE], fs |-> TwoIcons]}

\* Several output directories
InitDirs ==
    /\ nargs \in 2..MaxDirs
    /\ dbOpens \in BOOLEAN
    /\ db = <<Line(RefX, "ABC", "a")>>
    /\ \E copy \in BOOLEAN :
         options = Options(DefaultFull(NoRules), FALSE, FALSE, copy)
    /\ \E ds \in [1..nargs -> DirStates] :
         /\ env = [d \in 1..nargs |-> ds[d].env]
         /\ disk = [d \in 1..nargs |-> ds[d].fs]
    /\ InitCommon

\* The line 1:0:1:4A:6:85:0:0:0:0 "ABC HD" abc: split() cuts the quoted
\* name at its space
QuotedLine == [ref |-> RefY, words |-> <<"\"ABC", "HD\"", "abc">>]

\* Lines of four, three, two and no fields
FieldLines ==
    {QuotedLine,
     Line(RefY, "\"ABCHD\"", "abc"),
     [ref |-> RefX, words |-> <<"abc">>],
     [ref |-> <<>>, words |-> <<>>]}

\* An empty output directory and lines of every length
InitFields ==
    /\ nargs = 1
    /\ dbOpens = TRUE
    /\ env = <<OkEnv>>
    /\ db \in Databases(FieldLines, MaxRecords)
    /\ \E hard \in BOOLEAN :
         options = Options(DefaultFull(NoRules), hard, FALSE, FALSE)
    /\ disk = <<IconDir({<<"abc">>, <<"b">>})>>
    /\ InitCommon

\* The image files whose names meet on the icon key a, and one that is alone
CollidingFiles == {<<"a">>, <<"a", "sbs">>, <<"a", "fv">>, <<"b">>}

\* An empty output directory and a channel_picons with files of one key
InitInventory ==
    /\ nargs = 1
    /\ dbOpens = TRUE
    /\ env = <<OkEnv>>
    /\ db \in Databases({Line(RefX, "ABC", "a")}, MaxRecords)
    /\ \E hard \in BOOLEAN :
         options = Options(DefaultFull(NoRules), hard, FALSE, FALSE)
    /\ \E S \in SUBSET CollidingFiles : disk = <<IconDir(S)>>
    /\ InitCommon

\* Records with the icon keys tba and tobeadvised, and two others
PlaceholderLines ==
    {Line(RefX, "ABC", "tba"), Line(RefX, "ABC", "a"),
     Line(RefY, "ABC", "tobeadvised"), Line(RefY, "ABC", "m")}

\* Placeholder records, with and without an image tba.png, the target of the
\* first absent, a file of its own, or a link of either kind
InitPlaceholder ==
    /\ nargs = 1
    /\ dbOpens = TRUE
    /\ env = <<OkEnv>>
    /\ db \in Databases(PlaceholderLines, MaxRecords)
    /\ \E hard \in BOOLEAN :
         options = Options(DefaultFull(NoRules), hard, FALSE, FALSE)
    /\ \E S \in {{<<"a">>, <<"b">>}, {<<"a">>, <<"tba">>}} :
       \E out \in OutDirs(<<NameX>>, StartEntries) :
         disk = <<Merge(IconDir(S), out)>>
    /\ InitCommon

\* Records whose service name holds a '/': the name of an image that is
\* there, and of one that is not
PathNameLines ==
    {Line(RefX, "channel_picons/b", "a"),
     Line(RefY, "channel_picons/abc", "a"),
     Line(RefY, "ABC", "b")}

\* The rules with --servicenames, alone and with --full
NameRules ==
    {[NoRules EXCEPT !.useServiceNameLinks = TRUE],
     [NoRules EXCEPT !.useServiceNameLinks = TRUE, !.full = TRUE]}

\* Service names that are paths into channel_picons; the output directory
\* is empty or holds a hard link of b.png
InitPathNames ==
    /\ nargs = 1
    /\ dbOpens = TRUE
    /\ env = <<OkEnv>>
    /\ db \in Databases(PathNameLines, MaxRecords)
    /\ \E r \in NameRules, hard \in BOOLEAN :
         options = Options(r, hard, FALSE, FALSE)
    /\ \E out \in {EmptyMap, [q \in {NameY} |-> Reg(IconIno(<<"b">>))]} :
         disk = <<Merge(TwoIcons, out)>>
    /\ InitCommon

Init ==
    \/ InitLinks
    \/ InitOdd
    \/ InitRules
    \/ InitOverride
    \/ InitDirs
    \/ InitFields
    \/ InitInventory
    \/ InitPlaceholder
    \/ InitPathNames

Next ==
    \/ Construct
    \/ ReadLine
    \/ Reconcile
    \/ EndOfFile
    \/ CheckUnused
    \/ MakeHtmlIndex
    \/ Clean

\* One start of the program
Spec == Init /\ [][Next]_vars

NextRerun == Next \/ Rerun

\* The program started again and again on the directory it has left
SpecRerun == InitLinks /\ [][NextRerun]_vars

----------------------------------------------------------------------------
(* What the claims speak about *)

\* The final clean() of a directory has just run; the LinkMaker's fields
\* still describe that directory
JustCleaned == pc = "done" \/ (pc = "main" /\ argi > 1)

\* The directory the LinkMaker's fields describe
LastDir == IF pc = "main" /\ argi > 1 THEN argi - 1 ELSE argi

\* The kind of link the run makes
WantedKind == IF options.useHardLinks THEN IS_HLINK ELSE IS_SLINK

\* The entry n of the directory dir is a link of the configured kind on the
\* inventory icon of the key picon
LinkedTo(dir, n, picon) ==
    /\ picon \in DOMAIN piconFiles
    /\ n \in DOMAIN dir
    /\ RefType(dir, n) = WantedKind
    /\ StatOK(dir, n)
    /\ GetLinkRef(dir, n) = piconFiles[picon].ref

\* The target names of the lines expanded so far
Derived == UNION {{targets[l][i] : i \in 1..Len(targets[l])} :
                    l \in DOMAIN targets}

TargetsOf(l) == {targets[l][i] : i \in 1..Len(targets[l])}

\* No line names the target n with another icon key of the inventory than
\* the line l does
Unrivalled(l, n) ==
    \A k \in DOMAIN targets :
       n \in TargetsOf(k) =>
          \/ Picon(db[k]) = Picon(db[l])
          \/ Picon(db[k]) \notin DOMAIN piconFiles

----------------------------------------------------------------------------
(* C1 *)

\* C1: after makeLinks and the final clean(), for every record whose icon
\* key is in the inventory, every target name expanded from it that is not
\* an override (a plain file at the target path) is a link of the configured
\* kind whose identity is that of the inventory icon of the record's key.
\* The claim is stated in the way most favourable to the code: a target is
\* left out when it was a plain file or a directory before the run, when it
\* is a plain file after it, and when another record names it with another
\* icon key (first-write-wins, C5).
C1_LinkedAfterRun ==
    JustCleaned =>
      \A l \in DOMAIN targets : \A n \in TargetsOf(l) :
         ( /\ Picon(db[l]) \in DOMAIN piconFiles
           /\ Unrivalled(l, n)
           /\ RefType(disk0[LastDir], n) # IS_FILE
           /\ ~(n \in DOMAIN disk0[LastDir] /\ disk0[LastDir][n].k = "dir")
           /\ RefType(disk[LastDir], n) # IS_FILE )
         => LinkedTo(disk[LastDir], n, Picon(db[l]))

----------------------------------------------------------------------------
(* C2 *)

\* C2: idempotence.  A complete run followed by a second complete run with
\* the same database, inventory and options removes no entry and creates no
\* link, reports linksMade 0 and removes 0 links.  Stated for the runs
\* without --cleanall and --copyimages, which undo and redo links by design.
C2_SecondRunIdle ==
    (run = 2 /\ pc = "done" /\ ~options.cleanAll /\ ~options.copyImages) =>
      /\ disk = disk0
      /\ muts = 0
      /\ linksMade = 0
      /\ \A e \in log : e.ev = "removing" => e.n = 0

----------------------------------------------------------------------------
(* C3 *)

\* A plain file of the output directory d before the run
PlainBefore(d) == {n \in OutNames(disk0[d]) : RefType(disk0[d], n) = IS_FILE}

\* C3: override invariant.  A .png entry of an output directory that is a
\* plain file (regular, link count 1) before the run is the same plain file
\* at every point of the run, whatever the database and the options.
C3_OverridesKept ==
    \A d \in 1..nargs : \A n \in PlainBefore(d) :
       /\ n \in DOMAIN disk[d]
       /\ disk[d][n] = disk0[d][n]
       /\ RefType(disk[d], n) = IS_FILE

\* A run has ended in which a record with an icon of the inventory named a
\* plain file, with --cleanall
C3_Witness ==
    /\ pc = "done"
    /\ options.cleanAll
    /\ \E l \in DOMAIN targets : \E n \in TargetsOf(l) :
          /\ n \in PlainBefore(argi)
          /\ n \in overrides
          /\ Picon(db[l]) \in DOMAIN piconFiles

----------------------------------------------------------------------------
(* C4 *)

\* C4: staleness.  Every link (.png hard link or symbolic link) that is in
\* the output directory before a run and whose name the database does not
\* derive is absent at the end of the run.
C4_StaleRemoved ==
    JustCleaned =>
      \A n \in OutNames(disk0[LastDir]) :
         ( /\ RefType(disk0[LastDir], n) \in {IS_HLINK, IS_SLINK}
           /\ n \notin Derived )
         => n \notin DOMAIN disk[LastDir]

----------------------------------------------------------------------------
(* C5 *)

\* The reconcile step of line l for the target n has been taken
Reconciled(l, n) ==
    \/ l < lineNo
    \/ l = lineNo /\ \A i \in 1..Len(servRefs) : TargetName(servRefs[i]) # n

\* The first line that names the target n
FirstNaming(n) ==
    CHOOSE k \in DOMAIN targets :
       /\ n \in TargetsOf(k)
       /\ \A j \in DOMAIN targets : n \in TargetsOf(j) => k <= j

\* C5 as claimed: when two records expand to the same target name with
\* different icon keys, the later one is reported as a conflict and the
\* target ends linked to the icon of the first record that named it.
C5_FirstNamedWins ==
    JustCleaned =>
      \A l \in DOMAIN targets : \A n \in TargetsOf(l) :
         LET k == FirstNaming(n)
         IN  (k < l /\ Picon(db[k]) # Picon(db[l])) =>
               /\ Ev("conflict", l, n, Picon(db[k]), 0) \in log
               /\ LinkedTo(disk[LastDir], n, Picon(db[k]))

\* The entry n of the directory dir is the link that was made or confirmed
\* for the icon key picon: a hard link of the file the inventory recorded
\* for it or of the file now at the icon's path, or a symbolic link, which
\* resolves to the recorded file when it is a direct entry of the output
\* directory
HeldFor(dir, n, picon) ==
    /\ picon \in DOMAIN piconFiles
    /\ n \in DOMAIN dir
    /\ IF options.useHardLinks
       THEN /\ dir[n].k = "reg"
            /\ \/ dir[n].ino = piconFiles[picon].ref
               \/ /\ IconPath(piconFiles[picon].name) \in DOMAIN dir
                  /\ dir[n].ino = dir[IconPath(piconFiles[picon].name)].ino
       ELSE /\ dir[n].k = "sym"
            /\ n \notin ChanPaths =>
                 StatOK(dir, n) /\ GetLinkRef(dir, n) = piconFiles[picon].ref

\* C5 as amended: first-linked-wins.  A target is claimed by the first
\* record for which its link was made or confirmed; from then on the target
\* keeps the link of that record's icon (a link of the configured kind on
\* the icon as long as no target name is a path into channel_picons), a
\* later record that names it with another icon key is reported as a
\* conflict, and a later record that names it with the same icon key leaves
\* no trace.
C5_FirstLinkedWins ==
    \A n \in DOMAIN claimant :
       LET k == claimant[n]
       IN  /\ n \in TargetsOf(k)
           /\ piconLinks[n] = Picon(db[k])
           /\ HeldFor(disk[LastDir], n, Picon(db[k]))
           /\ Derived \cap ChanPaths = {} =>
                 LinkedTo(disk[LastDir], n, Picon(db[k]))
           /\ \A l \in DOMAIN targets :
                (l > k /\ n \in TargetsOf(l) /\ Reconciled(l, n)) =>
                   IF Picon(db[l]) # Picon(db[k])
                   THEN Ev("conflict", l, n, Picon(db[k]), 0) \in log
                   ELSE \A e \in log : ~(e.line = l /\ e.name = n)

\* A run has ended in which a target claimed by one record was named by a
\* later record with another icon key, which was reported as a conflict
C5_Witness ==
    /\ pc = "done"
    /\ \E n \in DOMAIN claimant : \E l \in DOMAIN targets :
          /\ l > claimant[n]
          /\ n \in TargetsOf(l)
          /\ Picon(db[l]) # piconLinks[n]
          /\ Ev("conflict", l, n, piconLinks[n], 0) \in log

----------------------------------------------------------------------------
(* C6 - C10: the expansion *)

OnlyRule(r) ==
    \A q \in {"full", "short", "fold", "addfold", "useServiceNameLinks"} :
       options[q] = (q = r)

\* int(field[0]) and int(field[2], 16) of a line, -1 when int() raises
FieldZero(line) == ParseInt(ServRefParts(line)[1], 10)
ServiceType(line) == ParseInt(ServRefParts(line)[3], 16)

\* The full target of a line and the one with the service type set to v
FullName(line) == TargetName(Strs(ServRefParts(line)))
TypeName(line, v) ==
    LET P == Strs(ServRefParts(line))
    IN  TargetName([j \in 1..Len(P) |-> IF j = 3 THEN v ELSE P[j]])

\* A line of three fields whose numeric fields are numbers
WellFormed(line) ==
    /\ NumFields(line) = 3
    /\ Len(ServRefParts(line)) >= 6
    /\ FieldZero(line) # -1
    /\ ServiceType(line) # -1

\* A terrestrial record whose service type is not one of 0x1, 0x2, 0xA
Foldable(line) ==
    /\ WellFormed(line)
    /\ FieldZero(line) \in {1, 257}
    /\ ServiceType(line) \notin {1, 2, 10}

\* C6: with --fold alone every well-formed record yields exactly one
\* target, the folded name when the record is terrestrial with a service
\* type other than 0x1, 0x2, 0xA and the full name otherwise, and the
\* record that claims it links it to its own icon key.
C6_FoldOneTarget ==
    OnlyRule("fold") =>
      \A l \in 1..lineNo :
         WellFormed(db[l]) =>
           /\ l \in DOMAIN targets
           /\ targets[l] = << IF Foldable(db[l]) THEN TypeName(db[l], "1")
                              ELSE FullName(db[l]) >>
           /\ \A n \in DOMAIN claimant :
                claimant[n] = l => piconLinks[n] = Picon(db[l])

\* A line of three fields whose field[0] is no decimal number or whose
\* field[2] is no hexadecimal number
BadNumeric(line) ==
    /\ NumFields(line) = 3
    /\ Len(ServRefParts(line)) >= 3
    /\ FieldZero(line) = -1 \/ ServiceType(line) = -1

\* C7: with --fold or --addfold a record whose field[0] or field[2] does
\* not parse as a number does not stop the run.
C7_BadFieldSurvives ==
    ( /\ options.fold \/ options.addfold
      /\ lineNo >= 1
      /\ BadNumeric(db[lineNo]) )
    => pc # "crash"

\* The directory d as copyImages leaves it
AfterCopy(d) ==
    IF options.copyImages /\ env[d].chan # "unreadable"
    THEN CopyImages(disk0[d], env[d].chan, srcImages, 0).fs
    ELSE disk0[d]

\* Processing the directory d meets a fatal-to-run error
Fatal(d) ==
    \/ ~dbOpens
    \/ env[d].chan = "unreadable"
    \/ env[d].chan = "missing" /\ ~options.copyImages
    \/ ~env[d].outListable
    \/ \E n \in LinkNames(AfterCopy(d)) : ~StatOK(AfterCopy(d), n)

\* C8 as claimed: a fatal-to-run error aborts one directory only, every
\* later directory is still processed: the program does not end with a
\* later directory left that nothing is wrong with.
C8_LaterDirsProcessed ==
    pc = "exit1" => \A e \in (argi + 1)..nargs : Fatal(e)

\* C8 as amended: a fatal-to-run error ends the program.  The directory it
\* occurs in is never finished, and no later directory is started or
\* touched.
C8_FatalEndsProgram ==
    \A d \in 1..nargs :
       Fatal(d) =>
         /\ argi <= d
         /\ argi = d => pc \in {"main", "exit1"}
         /\ \A e \in (d + 1)..nargs : disk[e] = disk0[e]

\* The program has ended on a fatal error with a directory left that has
\* nothing wrong with it
C8_Witness ==
    /\ pc = "exit1"
    /\ argi = 1
    /\ nargs > 1
    /\ dbOpens
    /\ Fatal(1)
    /\ ~Fatal(nargs)
    /\ disk[nargs] = disk0[nargs]

\* The record of the C9 example: 1:0:2:4A:6:1010:0:0:0:0
RefNews == Ref(<<"1">>, <<"2">>, <<"4", "A">>, <<"1", "0", "1", "0">>)

\* C9 as claimed: with --addfold alone the record 1:0:2:4A:6:1010:... yields
\* three targets, with the service types 2, 1 and A.
C9_ThreeTargets ==
    OnlyRule("addfold") =>
      \A l \in DOMAIN targets :
         db[l].ref = RefNews =>
           TargetsOf(l) = {FullName(db[l]), TypeName(db[l], "1"),
                           TypeName(db[l], "A")}

\* C9 as amended: with --addfold alone the record 1:0:2:4A:6:1010:... yields
\* one target, the full name with the service type 2.
C9_OneTarget ==
    OnlyRule("addfold") =>
      \A l \in 1..lineNo :
         db[l].ref = RefNews =>
           /\ l \in DOMAIN targets
           /\ targets[l] = <<FullName(db[l])>>

C9_Witness ==
    /\ OnlyRule("addfold")
    /\ \E l \in DOMAIN targets : db[l].ref = RefNews /\ Len(targets[l]) = 1

\* C10: fold rule.  For a record whose field[0] with the bit 0x100 cleared
\* is 1 and whose stype is none of 0x1, 0x2, 0xA, --addfold alone yields
\* the full and the folded target and --fold alone yields the folded
\* target only.
C10_FoldRule ==
    \A l \in 1..lineNo :
       Foldable(db[l]) =>
         /\ OnlyRule("addfold") =>
              /\ l \in DOMAIN targets
              /\ targets[l] = <<FullName(db[l]), TypeName(db[l], "1")>>
         /\ OnlyRule("fold") =>
              /\ l \in DOMAIN targets
              /\ targets[l] = <<TypeName(db[l], "1")>>

\* Two records that are folded have been expanded by --addfold alone, the
\* second with the bit 0x100 set in field[0]
C10_Witness ==
    /\ OnlyRule("addfold")
    /\ lineNo = 2
    /\ Foldable(db[1])
    /\ Foldable(db[2])
    /\ FieldZero(db[2]) = 257
    /\ 2 \in DOMAIN targets

----------------------------------------------------------------------------
(* C11 *)

\* A LinkMaker has been constructed for the directory LastDir
Constructed == pc \in {"lines", "unused", "html", "clean"} \/ JustCleaned

\* The .png links of a directory, of either kind
LinksIn(dir) == LinkNames(dir)

\* C11: with --cleanall every link of the baseline is removed before the
\* first record is expanded and the baseline is left empty: no link is in
\* the output directory when makeLinks starts, the baseline is empty from
\* then on (the identity short-circuit of lines 264-266 keeps nothing), and
\* every link in the directory afterwards is one this run has made.
C11_CleanAllResets ==
    (options.cleanAll /\ Constructed) =>
      /\ origPiconLinks = EmptyMap
      /\ (pc = "lines" /\ lineNo = 0) => LinksIn(disk[LastDir]) = {}
      /\ LinksIn(disk[LastDir]) \subseteq DOMAIN piconLinks
      /\ Cardinality(DOMAIN piconLinks) <= linksMade

\* The run has ended, with --cleanall, on a directory that held a link of
\* the configured kind on the icon its record asks for: the link was removed
\* and made again
C11_Witness ==
    /\ pc = "done"
    /\ options.cleanAll
    /\ \E n \in DOMAIN claimant :
          /\ n \in DOMAIN disk0[argi]
          /\ RefType(disk0[argi], n) = WantedKind
          /\ StatOK(disk0[argi], n)
          /\ GetLinkRef(disk0[argi], n) = piconFiles[piconLinks[n]].ref
          /\ LinkedTo(disk[argi], n, piconLinks[n])
          /\ linksMade >= 1

----------------------------------------------------------------------------
(* C12 *)

----------------------------------------------------------------------------
(* C13 *)

\* makeLinks is about to read its first line
ScanDone == pc = "lines" /\ lineNo = 0 /\ servRefs = <<>>

OtherKind == IF options.useHardLinks THEN IS_SLINK ELSE IS_HLINK

\* C13: after the scan of the existing links and before the first link is
\* made, the baseline holds exactly the .png entries of the output directory
\* that are links of the configured kind, each with its identity, and no
\* link of the other kind is left in the directory.  Without --cleanall and
\* --copyimages the baseline is the set of the links of the configured kind
\* the directory held before the run, and all of them are still there.
C13_BaselineIsWantedKind ==
    ScanDone =>
      /\ DOMAIN origPiconLinks =
           {n \in OutNames(disk[argi]) : RefType(disk[argi], n) = WantedKind}
      /\ \A n \in DOMAIN origPiconLinks :
            origPiconLinks[n] = GetLinkRef(disk[argi], n)
      /\ \A n \in OutNames(disk[argi]) : RefType(disk[argi], n) # OtherKind
      /\ \A n \in OutNames(disk0[argi]) :
            RefType(disk0[argi], n) = OtherKind /\ ~options.copyImages
               => n \notin DOMAIN disk[argi]
      /\ (~options.cleanAll /\ ~options.copyImages) =>
            /\ DOMAIN origPiconLinks =
                 {n \in OutNames(disk0[argi]) :
                    RefType(disk0[argi], n) = WantedKind}
            /\ \A n \in DOMAIN origPiconLinks :
                  disk[argi][n] = disk0[argi][n]

\* The scan has kept a link of the configured kind and removed one of the
\* other kind
C13_Witness ==
    /\ ScanDone
    /\ ~options.cleanAll
    /\ origPiconLinks # EmptyMap
    /\ \E n \in OutNames(disk0[argi]) :
          RefType(disk0[argi], n) = OtherKind /\ n \notin DOMAIN disk[argi]

----------------------------------------------------------------------------
(* C14 *)

\* The .png symbolic links of the directory d whose target does not exist
\* when the program is started
Dangling(d) ==
    {n \in OutNames(disk0[d]) : IsLink(disk0[d], n) /\ ~Exists(disk0[d], n)}

\* C14: a symbolic link whose target no longer exists does not keep a run
\* from completing: when nothing else is wrong with the directory, the
\* program does not end in it with exit(1).
C14_DanglingSurvives ==
    \A d \in 1..nargs :
       ( /\ Dangling(d) # {}
         /\ dbOpens
         /\ env[d].chan = "ok"
         /\ env[d].outListable )
       => ~(argi = d /\ pc = "exit1")

----------------------------------------------------------------------------
(* C15 *)

\* The icon key of an image file: its name without a source tag
KeyOf(f) ==
    IF Len(f) >= 2 /\ f[Len(f)] \in PICON_SRCS
    THEN JoinWith("_", SubSeq(f, 1, Len(f) - 1))
    ELSE JoinWith("_", f)

Tagged(f) == Len(f) >= 2 /\ f[Len(f)] \in PICON_SRCS

\* The place of the file f in the scan order o
Pos(o, f) == CHOOSE i \in DOMAIN o : o[i] = f

\* The file of the set F that the order o scans last
Latest(o, F) == CHOOSE f \in F : \A g \in F : Pos(o, g) <= Pos(o, f)

\* The image files of the directory that reduce to the key of f
Variants(dir, f) == {g \in ChanFiles(dir) : KeyOf(g) = KeyOf(f)}

\* The inventory the program holds is the one _makePiconFileList builds
\* for some order of the scan
InventoryOfSomeOrder ==
    \E o \in Orders(ChanFiles(disk[argi])) :
       LET inv == MakePiconFileList(disk[argi], o)
       IN  piconFiles = inv.files /\ inv.log \subseteq log

\* C15 as claimed: whenever two image files reduce to the same icon key, for
\* every order of the scan the entry of the key is the file scanned later
\* and the collision is logged.
C15_LaterScannedWins ==
    ScanDone =>
      /\ InventoryOfSomeOrder
      /\ \A o \in Orders(ChanFiles(disk[argi])) :
           LET inv == MakePiconFileList(disk[argi], o)
           IN  \A f \in ChanFiles(disk[argi]) :
                  Cardinality(Variants(disk[argi], f)) >= 2 =>
                    LET w == Latest(o, Variants(disk[argi], f))
                    IN  /\ inv.files[KeyOf(f)].name = FileName(w)
                        /\ \E e \in inv.log :
                              e.ev = "renamed" /\ e.picon = FileName(w)

\* C15 as amended: a file with a source tag takes the key whenever it is
\* scanned, and the replacement of an entry is logged; a file without a tag
\* takes the key only when the key has no entry yet, and is passed over
\* without a word otherwise.  Hence the entry of a key is the tagged file
\* scanned last if there is one, in every order, and the untagged file
\* otherwise; a tagged file is logged exactly when another file of its key
\* was scanned before it, and an untagged file is never logged.
C15_TaggedWins ==
    ScanDone =>
      /\ InventoryOfSomeOrder
      /\ \A o \in Orders(ChanFiles(disk[argi])) :
           LET inv == MakePiconFileList(disk[argi], o)
           IN  \A f \in ChanFiles(disk[argi]) :
                 LET V == Variants(disk[argi], f)
                     T == {g \in V : Tagged(g)}
                     w == IF T # {} THEN Latest(o, T) ELSE f
                     logged == \E e \in inv.log :
                                  e.ev = "renamed" /\ e.picon = FileName(f)
                 IN  /\ KeyOf(f) \in DOMAIN inv.files
                     /\ inv.files[KeyOf(f)].name = FileName(w)
                     /\ inv.files[KeyOf(f)].ref =
                          GetLinkRef(disk[argi], IconPath(FileName(w)))
                     /\ logged <=>
                          /\ Tagged(f)
                          /\ \E g \in V : Pos(o, g) < Pos(o, f)

\* The scan has met a.png after a_sbs.png: the entry of the key a is
\* a_sbs.png and nothing was logged
C15_Witness ==
    /\ ScanDone
    /\ ChanFiles(disk[argi]) = {<<"a">>, <<"a", "sbs">>}
    /\ piconFiles["a"].name = "a_sbs.png"
    /\ \A e \in log : e.ev # "renamed"

----------------------------------------------------------------------------
(* C16 *)

\* The target and the icon key of the reconcile step that comes next
NextTarget == TargetName(Head(servRefs))
NextPicon == Picon(db[lineNo])

\* The next step is a reconcile step for a target that is in the baseline
\* with the identity of the inventory icon of the record's key (and, as in
\* the order of the decisions of lines 251-265, is no override file)
BaselineMatch ==
    /\ pc = "lines"
    /\ servRefs # <<>>
    /\ NextPicon \in DOMAIN piconFiles
    /\ NextTarget \in DOMAIN origPiconLinks
    /\ origPiconLinks[NextTarget] = piconFiles[NextPicon].ref
    /\ RefType(disk[argi], NextTarget) # IS_FILE

\* C16: a reconcile step for a target that is in the baseline with an
\* identity equal to the inventory icon's leaves every directory as it is,
\* makes no link and leaves linksMade alone; it takes the target out of
\* the baseline, records the icon as used and the target in piconLinks, and
\* prints nothing.
C16_ShortCircuitFrame ==
    [][ (BaselineMatch /\ servRefs' = Tail(servRefs)) =>
          /\ disk' = disk
          /\ linksMade' = linksMade
          /\ muts' = muts
          /\ log' = log
          /\ overrides' = overrides
          /\ NextTarget \notin DOMAIN origPiconLinks'
          /\ \A n \in DOMAIN origPiconLinks \ {NextTarget} :
                n \in DOMAIN origPiconLinks' /\
                origPiconLinks'[n] = origPiconLinks[n]
          /\ linkedPiconNames' =
               linkedPiconNames \cup {piconFiles[NextPicon].name}
          /\ DOMAIN piconLinks' = DOMAIN piconLinks \cup {NextTarget}
          /\ piconLinks'[NextTarget] = NextPicon
          /\ \A n \in DOMAIN piconLinks : piconLinks'[n] = piconLinks[n]
      ]_vars

\* Such a step has been taken: the target is claimed, it is out of the
\* baseline, and the directory is as the program found it
C16_Witness ==
    /\ pc = "lines"
    /\ ~options.cleanAll
    /\ linksMade = 0
    /\ disk = disk0
    /\ \E n \in DOMAIN piconLinks :
          /\ n \notin DOMAIN origPiconLinks
          /\ RefType(disk0[argi], n) = WantedKind
          /\ piconFiles[piconLinks[n]].name \in linkedPiconNames
          /\ GetLinkRef(disk0[argi], n) = piconFiles[piconLinks[n]].ref

----------------------------------------------------------------------------
(* C17 *)

\* C17 as claimed: a record whose icon key is tba or tobeadvised is skipped
\* silently whatever the inventory and the output directory hold: no target
\* is linked for it and nothing is printed about it.
C17_PlaceholderSkipped ==
    \A l \in 1..lineNo :
       (NumFields(db[l]) = 3 /\ Picon(db[l]) \in {"tba", "tobeadvised"}) =>
          /\ \A n \in DOMAIN claimant : claimant[n] # l
          /\ \A e \in log : e.line # l

\* The next step is a reconcile step of a record with a placeholder key
PlaceholderStep ==
    /\ pc = "lines"
    /\ servRefs # <<>>
    /\ NextPicon \in {"tba", "tobeadvised"}

\* What a reconcile step prints before it looks at the icon key: the
\* conflict with the record that holds the target (line 290), or the
\* override file found at the target (line 253)
EarlyMessages ==
    IF NextTarget \in DOMAIN piconLinks
    THEN IF piconLinks[NextTarget] = NextPicon THEN {}
         ELSE {Ev("conflict", lineNo, NextTarget, piconLinks[NextTarget], 0)}
    ELSE IF RefType(disk[argi], NextTarget) = IS_FILE
            /\ NextTarget \notin overrides
         THEN {Ev("overridden", lineNo, NextTarget, NextPicon, 0)}
         ELSE {}

\* C17 as amended: a placeholder key only keeps the "No picon" warning
\* quiet.  When the key is not in the inventory, a reconcile step of the
\* record changes no directory, no baseline entry and no link map, and
\* prints nothing but what every step prints for a target that is held by
\* another record or is an override file.  When the inventory has an image
\* for the key, the record is linked like any other.
C17_PlaceholderQuiet ==
    [][ (PlaceholderStep /\ servRefs' = Tail(servRefs)) =>
          IF NextPicon \notin DOMAIN piconFiles
          THEN /\ disk' = disk
               /\ linksMade' = linksMade
               /\ muts' = muts
               /\ origPiconLinks' = origPiconLinks
               /\ piconLinks' = piconLinks
               /\ linkedPiconNames' = linkedPiconNames
               /\ log' = log \cup EarlyMessages
          ELSE ( /\ NextTarget \notin DOMAIN piconLinks
                 /\ RefType(disk[argi], NextTarget) # IS_FILE )
               => /\ NextTarget \in DOMAIN piconLinks'
                  /\ piconLinks'[NextTarget] = NextPicon
                  /\ LinkedTo(disk'[argi], NextTarget, NextPicon)
      ]_vars

\* A run has ended in which the record tba had no image and left no trace,
\* while the record of a key that is no placeholder was reported
C17_Witness ==
    /\ pc = "done"
    /\ "tba" \notin DOMAIN piconFiles
    /\ \E l \in DOMAIN targets :
          /\ Picon(db[l]) = "tba"
          /\ \A e \in log : e.line # l
          /\ \A n \in TargetsOf(l) : n \notin DOMAIN disk[argi]
    /\ \E e \in log : e.ev = "nopicon" /\ e.picon = "m"

----------------------------------------------------------------------------
(* C18 *)

\* The file names of the inventory icons of the keys piconLinks holds
LinkedIcons == {piconFiles[piconLinks[n]].name : n \in DOMAIN piconLinks}

\* checkUnused has run for the directory LastDir
UnusedReported == pc \in {"html", "clean"} \/ JustCleaned

\* C18: at every point linkedPiconNames is the set of the inventory file
\* names of the icon keys held in piconLinks; and once checkUnused has run,
\* an inventory icon has been reported unused exactly when no target was
\* made or confirmed for it in this run.
C18_UsedIconsAreLinkedIcons ==
    /\ \A n \in DOMAIN piconLinks : piconLinks[n] \in DOMAIN piconFiles
    /\ linkedPiconNames = LinkedIcons
    /\ UnusedReported =>
         \A k \in DOMAIN piconFiles :
            Ev("unused", 0, piconFiles[k].name, "", 0) \in log
               <=> piconFiles[k].name \notin LinkedIcons
    /\ \A e \in log :
         e.ev = "unused" =>
            \E k \in DOMAIN piconFiles : piconFiles[k].name = e.name

\* A run has ended in which one icon was linked and another, whose only
\* target is an override file, was reported unused
C18_Witness ==
    /\ pc = "done"
    /\ linkedPiconNames # {}
    /\ \E l \in DOMAIN targets :
          /\ Picon(db[l]) \in DOMAIN piconFiles
          /\ TargetsOf(l) # {}
          /\ TargetsOf(l) \subseteq overrides
          /\ Ev("unused", 0, piconFiles[Picon(db[l])].name, "", 0) \in log

----------------------------------------------------------------------------
(* C19 *)

\* The .png hard links the earlier run has left in the directory
LeftHardLinks == {n \in OutNames(disk0[1]) : RefType(disk0[1], n) = IS_HLINK}

\* The lines that derive the target n and whose icon key is in the inventory
Deriving(n) ==
    {l \in DOMAIN targets : n \in TargetsOf(l)
                              /\ Picon(db[l]) \in DOMAIN piconFiles}

\* C19: in hard-link mode a hard link left by an earlier run is never taken
\* for an override by a later run, --copyimages or not: at the end of the
\* later run it is a hard link of the inventory icon of a record that
\* derives it, and it is gone when no record derives it any more.
C19_HardLinksNeverOverride ==
    (options.useHardLinks /\ run = 2) =>
      \A n \in LeftHardLinks :
         /\ n \notin overrides
         /\ pc = "done" =>
              /\ Deriving(n) # {} =>
                   \E l \in Deriving(n) : LinkedTo(disk[1], n, Picon(db[l]))
              /\ n \notin Derived => n \notin DOMAIN disk[1]

----------------------------------------------------------------------------
(* C20 *)

\* The content of channel_picons in the directory dir
ChanContent(dir) == [q \in DOMAIN dir \cap ChanPaths |-> dir[q]]

\* C20: reconciliation leaves the source image directory alone.  From the
\* end of the scan to the end of the run nothing in channel_picons is
\* removed, replaced or created, whatever the database holds and in both
\* link modes.
C20_ImagesReadOnly ==
    [][ (pc \in {"lines", "unused", "html", "clean"}) =>
          ChanContent(disk'[argi]) = ChanContent(disk[argi]) ]_vars

====
